---- MODULE Spec2Model ----
(***************************************************************************)
(* Contract analysis pipeline: the contract record kept by the HTTP API,   *)
(* the internal callback endpoints, the public contract endpoints and the  *)
(* worker tasks of one pipeline run (a celery chain of five steps).        *)
(*                                                                         *)
(* Optional values (Python None) are sequences: <<>> is None, <<v>> is v.  *)
(* Every HTTP handler is one atomic action; a worker step that makes       *)
(* several callbacks is several actions.                                   *)
(***************************************************************************)
EXTENDS Integers, Sequences, FiniteSets, TLC

\* ---- bounds -----------------------------------------------------------
MaxRuns == 2
MaxEntries == 2
MaxChains == 2

\* ---- input domains ----------------------------------------------------
ContractIds == {1}
\* ids a caller may put in a URL: an id names no contract until it is uploaded
RequestIds == ContractIds
Filenames == {"a.pdf"}
\* the UTC days on which uploads are made
Days == {"2024/01/01"}
ContentTypes == {"application/pdf", "text/plain"}
ClauseCounts == {0, 1}

\* ---- schema.py --------------------------------------------------------
ContractState ==
  {"pending", "processing", "analyzing", "evaluating", "completed", "failed", "rejected"}

\* strings a caller can send as a state: the enum values and one that is not
StateStrings == ContractState \cup {"bogus"}

None == <<>>
Some(v) == <<v>>

VARIABLES
  db,        \* Document Store, collection "contracts": id -> Contract
  uploads,   \* Blob Store, raw uploads: path -> uploaded bytes (upload number)
  parsed,    \* Blob Store, parsed/{contract_id}/{run_id}/text.txt: set of <<cid, rid>>
  tasks,     \* run id -> the celery chain of that run (contract id, position)
  lastCall,  \* the last HTTP request served by the API and its response
  session,   \* bearer tokens: those issued by login, and the last one presented
  inflight   \* API requests that loaded their contract and have not saved it yet

vars == <<db, uploads, parsed, tasks, lastCall, session, inflight>>

\* ---- models.py: Contract ----------------------------------------------
NewContract(filename, path) ==
  [ filename |-> filename,
    file_path |-> path,
    status |-> "pending",
    analysis_result |-> None,
    evaluation_result |-> None,
    pipeline_runs |-> <<>>,
    error_message |-> None ]

\* who made the request: 0 is a user of the public API or another holder of the
\* internal token, r > 0 is the worker executing a step of run r
\* state and run_id are the request's parameters ("" and 0 when it has none; for
\* the trigger, run_id is the run id of the response)
\* tries is the number of attempts the caller made (1 for a request sent once)
Call(by, op, cid, state, run_id, res) ==
  [by |-> by, op |-> op, cid |-> cid, state |-> state, run_id |-> run_id,
   code |-> res.code, is_latest |-> res.is_latest, tries |-> res.tries]

\* what a handler does: the HTTP status, the Document Store afterwards, and the
\* fields of the response body that callers read
Result(code, d) == [code |-> code, db |-> d, is_latest |-> FALSE, run_id |-> 0, tries |-> 1]

\* an Optional run id as a number: None is 0
RunIdOf(run_id) == IF run_id = None THEN 0 ELSE run_id[1]

\* ---- internal_contracts.py ---------------------------------------------
\* _get_contract: 404 when Contract.get finds nothing
Found(d, cid) == cid \in DOMAIN d

get_contract_internal(d, cid) ==
  IF ~Found(d, cid) THEN Result(404, d) ELSE Result(200, d)

\* mutant: any entry of the run, not the last one
LastRunIs_AnyEntry(runs, run_id) ==
  \E i \in DOMAIN runs : runs[i].run_id = run_id

LastRunIs(runs, run_id) ==
  Len(runs) > 0 /\ runs[Len(runs)].run_id = run_id

is_pipeline_latest(d, cid, run_id) ==
  IF ~Found(d, cid) THEN Result(404, d)
  ELSE [Result(200, d) EXCEPT !.is_latest = LastRunIs(d[cid].pipeline_runs, run_id)]

\* mutant: the run list is reset before the entry is added
change_contract_state_ResetsRuns(d, cid, state, run_id) ==
  IF ~Found(d, cid) THEN Result(404, d)
  ELSE IF state \notin ContractState THEN Result(400, d)
  ELSE Result(200,
         [d EXCEPT ![cid].status = state,
                   ![cid].pipeline_runs =
                       IF run_id # None
                       THEN <<[run_id |-> run_id[1], state |-> state]>>
                       ELSE @])

\* mutant: a transition table that lets no contract leave a terminal state
change_contract_state_Guarded(d, cid, state, run_id) ==
  IF ~Found(d, cid) THEN Result(404, d)
  ELSE IF state \notin ContractState THEN Result(400, d)
  ELSE IF d[cid].status \in {"completed", "failed", "rejected"} THEN Result(400, d)
  ELSE Result(200,
         [d EXCEPT ![cid].status = state,
                   ![cid].pipeline_runs =
                       IF run_id # None
                       THEN Append(@, [run_id |-> run_id[1], state |-> state])
                       ELSE @])

\* run_id is Optional: None (or "") adds no run entry
change_contract_state(d, cid, state, run_id) ==
  IF ~Found(d, cid) THEN Result(404, d)
  ELSE IF state \notin ContractState THEN Result(400, d)
  ELSE Result(200,
         [d EXCEPT ![cid].status = state,
                   ![cid].pipeline_runs =
                       IF run_id # None
                       THEN Append(@, [run_id |-> run_id[1], state |-> state])
                       ELSE @])

\* mutant: the internal handler also moves the state, as the public one does
set_analysis_result_SetsState(d, cid, analysis_result) ==
  IF ~Found(d, cid) THEN Result(404, d)
  ELSE Result(200, [d EXCEPT ![cid].analysis_result = Some(analysis_result),
                             ![cid].status = "analyzing"])

set_analysis_result(d, cid, analysis_result) ==
  IF ~Found(d, cid) THEN Result(404, d)
  ELSE Result(200, [d EXCEPT ![cid].analysis_result = Some(analysis_result)])

\* mutant: saving the evaluation also moves the state
set_evaluation_result_SetsState(d, cid, evaluation_result) ==
  IF ~Found(d, cid) THEN Result(404, d)
  ELSE Result(200, [d EXCEPT ![cid].evaluation_result = Some(evaluation_result),
                             ![cid].status = "evaluating"])

set_evaluation_result(d, cid, evaluation_result) ==
  IF ~Found(d, cid) THEN Result(404, d)
  ELSE Result(200, [d EXCEPT ![cid].evaluation_result = Some(evaluation_result)])

\* mutant: a failure report rolls the results of the contract back
report_contract_failure_ClearsResults(d, cid, error_message) ==
  IF ~Found(d, cid) THEN Result(404, d)
  ELSE Result(200, [d EXCEPT ![cid].status = "failed",
                             ![cid].error_message = Some(error_message),
                             ![cid].analysis_result = None,
                             ![cid].evaluation_result = None])

report_contract_failure(d, cid, error_message) ==
  IF ~Found(d, cid) THEN Result(404, d)
  ELSE Result(200, [d EXCEPT ![cid].status = "failed",
                             ![cid].error_message = Some(error_message)])

\* ---- core/security.py ------------------------------------------------------
\* A bearer token is the payload of a JWT (the claims the code reads; a claim that
\* is absent is <<>>) and whether its signature was made with settings.secret_key.
Users == {"alice"}

\* create_access_token(user): the token login issues for a User object
create_access_token(username) ==
  [sub |-> Some(username), user_id |-> Some(username), is_active |-> Some(TRUE),
   type |-> None, iss |-> None, signed |-> TRUE]

\* generate_internal_token: create_access_token of a dict with sub, type and iss
generate_internal_token ==
  [sub |-> Some("internal_worker"), user_id |-> None, is_active |-> None,
   type |-> Some("internal"), iss |-> Some("pwc_api"), signed |-> TRUE]

\* the same payload signed with another key: jwt.decode raises JWTError
Forged(token) == [token EXCEPT !.signed = FALSE]

\* verify_token: 401 on JWTError or a missing sub; a token without user_id is a
\* "legacy token" and makes an active user named by its sub
verify_token(token) ==
  IF ~token.signed THEN [code |-> 401, username |-> None, is_active |-> FALSE]
  ELSE IF token.sub = None THEN [code |-> 401, username |-> None, is_active |-> FALSE]
  ELSE IF token.user_id = None THEN [code |-> 200, username |-> token.sub, is_active |-> TRUE]
  ELSE [code |-> 200, username |-> token.sub,
        is_active |-> IF token.is_active = None THEN TRUE ELSE token.is_active[1]]

\* get_current_user, the dependency of every user-facing endpoint
get_current_user(token) ==
  LET token_user == verify_token(token)
  IN IF token_user.code # 200 THEN token_user.code
     ELSE IF ~token_user.is_active THEN 400
     ELSE 200

\* verify_internal_token, the dependency of every internal endpoint
verify_internal_token(token) ==
  IF ~token.signed THEN 401
  ELSE IF token.type # Some("internal") \/ token.iss # Some("pwc_api") THEN 401
  ELSE 200

\* no token was issued or presented yet
NoSession == [issued |-> {}, token |-> Forged(generate_internal_token), endpoint |-> "none", code |-> 0]

\* ---- contracts.py (public endpoints) -----------------------------------
\* the contract id a new upload gets (the Document Store mints a fresh one)
FreshId(d) == Cardinality(DOMAIN d) + 1

\* raw uploads are stored under contracts/{date}/{filename}
UploadPath(day, filename) == <<"contracts", day, filename>>

\* day is the UTC date of the request
create_contract(d, day, filename, content_type) ==
  IF content_type # "application/pdf" THEN Result(400, d)
  ELSE Result(200, d @@ (FreshId(d) :> NewContract(filename, UploadPath(day, filename))))

update_contract_state(d, cid, status, error_message) ==
  IF ~Found(d, cid) THEN Result(404, d)
  ELSE Result(200,
         [d EXCEPT ![cid].status = status,
                   ![cid].error_message = IF error_message # None THEN error_message ELSE @])

save_analysis_result(d, cid, analysis_result) ==
  IF ~Found(d, cid) THEN Result(404, d)
  ELSE Result(200, [d EXCEPT ![cid].analysis_result = Some(analysis_result),
                             ![cid].status = "analyzing"])

save_evaluation_result(d, cid, evaluation_result) ==
  IF ~Found(d, cid) THEN Result(404, d)
  ELSE Result(200, [d EXCEPT ![cid].evaluation_result = Some(evaluation_result),
                             ![cid].status = "evaluating"])

allowed_states == {"pending", "failed", "completed"}

\* mutant: the run list is replaced by the new entry
trigger_genai_analysis_DropsHistory(d, cid, run_id) ==
  IF ~Found(d, cid) THEN Result(404, d)
  ELSE IF d[cid].status \notin allowed_states THEN Result(400, d)
  ELSE [Result(200,
          [d EXCEPT ![cid].pipeline_runs = <<[run_id |-> run_id, state |-> "processing"]>>,
                    ![cid].status = "processing"])
        EXCEPT !.run_id = run_id]

\* mutant: the state of the contract is not looked at
trigger_genai_analysis_AnyState(d, cid, run_id) ==
  IF ~Found(d, cid) THEN Result(404, d)
  ELSE [Result(200,
          [d EXCEPT ![cid].pipeline_runs = Append(@, [run_id |-> run_id, state |-> "processing"]),
                    ![cid].status = "processing"])
        EXCEPT !.run_id = run_id]

\* run_id is the uuid4 minted by the handler
trigger_genai_analysis(d, cid, run_id) ==
  IF ~Found(d, cid) THEN Result(404, d)
  ELSE IF d[cid].status \notin allowed_states THEN Result(400, d)
  ELSE [Result(200,
          [d EXCEPT ![cid].pipeline_runs = Append(@, [run_id |-> run_id, state |-> "processing"]),
                    ![cid].status = "processing"])
        EXCEPT !.run_id = run_id]

\* ---- results -------------------------------------------------------------
\* An analysis result is its number of clauses and metadata.run_id (0 when the
\* writer is not a pipeline run); an evaluation result is its approved flag and,
\* as a history tag that is not part of the stored record, the run that wrote it.
\* fabricated is a history tag too: the result was not derived from what the
\* provider answered.
Analysis(n, run_id) == [clauses |-> n, run_id |-> run_id, fabricated |-> FALSE]
Evaluation(approved, run_id) == [approved |-> approved, by |-> run_id, fabricated |-> FALSE]

\* `not contract.get("analysis_result") or not contract["analysis_result"].get("clauses")`
HasClauses(analysis_result) ==
  analysis_result # None /\ analysis_result[1].clauses > 0

\* ---- genai.py ------------------------------------------------------------
\* ai is the outcome of the provider call: <<>> when it raises, <<n>> clauses
analyze_document(d, blobs, cid, ai) ==
  IF ~Found(d, cid) THEN Result(404, d)
  ELSE IF d[cid].file_path \notin DOMAIN blobs THEN Result(500, d)
  ELSE IF ai = None THEN Result(500, d)
  ELSE Result(200, [d EXCEPT ![cid].analysis_result = Some(Analysis(ai[1], 0))])

\* mutant: the provider is called before the analysis result is looked at
evaluate_document_EvaluatesFirst(d, cid, ai) ==
  IF ~Found(d, cid) THEN Result(404, d)
  ELSE IF ai = None THEN Result(500, d)
  ELSE IF d[cid].analysis_result = None THEN Result(400, d)
  ELSE IF d[cid].analysis_result[1].clauses = 0 THEN Result(400, d)
  ELSE Result(200, [d EXCEPT ![cid].evaluation_result = Some(Evaluation(ai[1], 0))])

\* ai is <<>> when the provider call raises, <<approved>> otherwise
evaluate_document(d, cid, ai) ==
  IF ~Found(d, cid) THEN Result(404, d)
  ELSE IF d[cid].analysis_result = None THEN Result(400, d)
  ELSE IF d[cid].analysis_result[1].clauses = 0 THEN Result(400, d)
  ELSE IF ai = None THEN Result(500, d)
  ELSE Result(200, [d EXCEPT ![cid].evaluation_result = Some(Evaluation(ai[1], 0))])

\* ---- ai/openai_client.py -------------------------------------------------
\* what the provider does with one request: the call raises ("error"), the
\* completion is not the JSON object asked for ("unparseable"), or it is ("json")
AnalyzeOutcomes ==
  {[kind |-> "error", clauses |-> 0], [kind |-> "unparseable", clauses |-> 0]}
    \cup {[kind |-> "json", clauses |-> n] : n \in ClauseCounts}

EvaluateOutcomes ==
  {[kind |-> "error", approved |-> FALSE], [kind |-> "unparseable", approved |-> FALSE]}
    \cup {[kind |-> "json", approved |-> b] : b \in BOOLEAN}

\* OpenAIClient.analyze_contract: <<>> when the call raises; on JSONDecodeError or
\* KeyError the fallback response, one payment_terms clause
OpenAIClient_analyze_contract(out) ==
  IF out.kind = "error" THEN None
  ELSE IF out.kind = "unparseable" THEN Some([clauses |-> 1, fabricated |-> TRUE])
  ELSE Some([clauses |-> out.clauses, fabricated |-> FALSE])

\* OpenAIClient.evaluate_contract: on JSONDecodeError or KeyError the fallback
\* response, approved = False
OpenAIClient_evaluate_contract(out) ==
  IF out.kind = "error" THEN None
  ELSE IF out.kind = "unparseable" THEN Some([approved |-> FALSE, fabricated |-> TRUE])
  ELSE Some([approved |-> out.approved, fabricated |-> FALSE])

\* ---- api_interface/client.py ---------------------------------------------
\* `for attempt in range(3)`
MaxAttempts == 3

\* what the attempts of one call meet: attempts[i] says whether attempt i reaches
\* the API and gets its response back (an outage that ends does not come back
\* within the three seconds of one call)
Attempts == {a \in [1..MaxAttempts -> BOOLEAN] : \A i \in 1..MaxAttempts - 1 : a[i] => a[i + 1]}

\* APIClient._make_request, the retry loop: ok2xx says whether the API answers the
\* request with a 2xx status (raise_for_status raises on every other status).
\* Returns whether a response was returned and the number of attempts made.
RECURSIVE APIClient_make_request(_, _, _)
APIClient_make_request(attempts, ok2xx, attempt) ==
  IF attempts[attempt] /\ ok2xx THEN [ok |-> TRUE, tries |-> attempt]
  ELSE IF attempt = MaxAttempts THEN [ok |-> FALSE, tries |-> attempt]
  ELSE APIClient_make_request(attempts, ok2xx, attempt + 1)

\* one callback: res is what the handler does with the request. An attempt that
\* does not get through changes nothing; when the last attempt raises, the status
\* is that of the last attempt (0 when it did not reach the API).
Request(attempts, res, d) ==
  LET m == APIClient_make_request(attempts, res.code = 200, 1)
  IN IF m.ok THEN [res EXCEPT !.tries = m.tries]
     ELSE [Result(IF attempts[MaxAttempts] THEN res.code ELSE 0, d) EXCEPT !.tries = m.tries]

Raised(res) == res.code # 200

\* APIClient.is_pipeline_latest: any exception reads as "not latest"
APIClient_is_pipeline_latest(res) ==
  IF Raised(res) THEN FALSE ELSE res.is_latest

\* ---- executors -----------------------------------------------------------
\* What one executor call does: the Document Store and the parsed-text blobs
\* afterwards, whether it raised, the last callback it made, whether a callback
\* or provider call of it failed, and whether it called the AI provider.
Out(d, p, raised, call, fault, provider) ==
  [db |-> d, parsed |-> p, raised |-> raised, call |-> call,
   fault |-> fault, provider |-> provider]

\* mutant: every step reports the same text
ReportAndRaise_SameMessage(d, p, r, cid, message, rep, fault, provider) ==
  LET f == Request(rep, report_contract_failure(d, cid, "Task failed"), d)
  IN Out(f.db, p, TRUE, Call(r, "failed", cid, "", 0, f), fault \/ Raised(f), provider)

\* the except branch of every executor: report the failure, then re-raise
\* (the message is modelled by its fixed prefix, "<step> failed")
ReportAndRaise(d, p, r, cid, message, rep, fault, provider) ==
  LET f == Request(rep, report_contract_failure(d, cid, message), d)
  IN Out(f.db, p, TRUE, Call(r, "failed", cid, "", 0, f), fault \/ Raised(f), provider)

ChangeStateExecutor_run(d, p, r, cid, state, net, rep) ==
  LET res == Request(net, change_contract_state(d, cid, state, Some(r)), d)
  IN IF state \in ContractState /\ ~Raised(res)
     THEN Out(res.db, p, FALSE, Call(r, "change-state", cid, state, r, res), FALSE, FALSE)
     ELSE ReportAndRaise(d, p, r, cid, "State change failed", rep, TRUE, FALSE)

\* text: ParseFactory.parse returned the text of the document
ParseContractExecutor_run(d, blobs, p, r, cid, text, net, rep) ==
  LET res == Request(net, get_contract_internal(d, cid), d)
  IN IF Raised(res)
     THEN ReportAndRaise(d, p, r, cid, "Parsing failed", rep, TRUE, FALSE)
     ELSE IF d[cid].file_path \notin DOMAIN blobs
     THEN ReportAndRaise(d, p, r, cid, "Parsing failed", rep, FALSE, FALSE)
     ELSE IF ~text
     THEN ReportAndRaise(d, p, r, cid, "Parsing failed", rep, TRUE, FALSE)
     ELSE Out(d, p \cup {<<cid, r>>}, FALSE, Call(r, "get", cid, "", 0, res), FALSE, FALSE)

\* mutant: an error of the save callback is swallowed
AnalyzeContractExecutor_run_IgnoresSaveError(d, p, r, cid, ai, net, rep) ==
  LET result == OpenAIClient_analyze_contract(ai)
      res == Request(net, set_analysis_result(d, cid,
                            [clauses |-> result[1].clauses, run_id |-> r,
                             fabricated |-> result[1].fabricated]), d)
  IN IF <<cid, r>> \notin p
     THEN ReportAndRaise(d, p, r, cid, "Analysis failed", rep, FALSE, FALSE)
     ELSE IF result = None
     THEN ReportAndRaise(d, p, r, cid, "Analysis failed", rep, TRUE, TRUE)
     ELSE Out(res.db, p, FALSE, Call(r, "set-analysis-result", cid, "", 0, res), Raised(res), TRUE)

\* ai: what the provider does with the extract-clauses request
AnalyzeContractExecutor_run(d, p, r, cid, ai, net, rep) ==
  LET result == OpenAIClient_analyze_contract(ai)
      res == Request(net, set_analysis_result(d, cid,
                            [clauses |-> result[1].clauses, run_id |-> r,
                             fabricated |-> result[1].fabricated]), d)
  IN IF <<cid, r>> \notin p
     THEN ReportAndRaise(d, p, r, cid, "Analysis failed", rep, FALSE, FALSE)
     ELSE IF result = None
     THEN ReportAndRaise(d, p, r, cid, "Analysis failed", rep, TRUE, TRUE)
     ELSE IF Raised(res)
     THEN ReportAndRaise(d, p, r, cid, "Analysis failed", rep, TRUE, TRUE)
     ELSE Out(res.db, p, FALSE, Call(r, "set-analysis-result", cid, "", 0, res), FALSE, TRUE)

\* mutant: the provider is asked before the analysis result is looked at
EvaluateContractExecutor_run_EvaluatesFirst(d, p, r, cid, has_clauses, ai, net, rep) ==
  LET result == OpenAIClient_evaluate_contract(ai)
      res == Request(net, set_evaluation_result(d, cid,
                            [approved |-> result[1].approved, by |-> r,
                             fabricated |-> result[1].fabricated]), d)
  IN IF result = None
     THEN ReportAndRaise(d, p, r, cid, "Evaluation failed", rep, TRUE, TRUE)
     ELSE IF ~has_clauses
     THEN ReportAndRaise(d, p, r, cid, "Evaluation failed", rep, FALSE, TRUE)
     ELSE IF Raised(res)
     THEN ReportAndRaise(d, p, r, cid, "Evaluation failed", rep, TRUE, TRUE)
     ELSE Out(res.db, p, FALSE, Call(r, "set-evaluation-result", cid, "", 0, res), FALSE, TRUE)

\* second half of EvaluateContractExecutor.run, after get_contract returned:
\* has_clauses is what the fetched contract showed
EvaluateContractExecutor_run(d, p, r, cid, has_clauses, ai, net, rep) ==
  LET result == OpenAIClient_evaluate_contract(ai)
      res == Request(net, set_evaluation_result(d, cid,
                            [approved |-> result[1].approved, by |-> r,
                             fabricated |-> result[1].fabricated]), d)
  IN IF ~has_clauses
     THEN ReportAndRaise(d, p, r, cid, "Evaluation failed", rep, FALSE, FALSE)
     ELSE IF result = None
     THEN ReportAndRaise(d, p, r, cid, "Evaluation failed", rep, TRUE, TRUE)
     ELSE IF Raised(res)
     THEN ReportAndRaise(d, p, r, cid, "Evaluation failed", rep, TRUE, TRUE)
     ELSE Out(res.db, p, FALSE, Call(r, "set-evaluation-result", cid, "", 0, res), FALSE, TRUE)

\* mutant: the exception of the failure callback is not caught
ReportFailureExecutor_run_Reraises(d, p, r, cid, error_message, rep) ==
  LET f == Request(rep, report_contract_failure(d, cid, error_message), d)
  IN Out(f.db, p, Raised(f), Call(r, "failed", cid, "", 0, f), Raised(f), FALSE)

\* ReportFailureExecutor.run: `except Exception` logs and does not raise
ReportFailureExecutor_run(d, p, r, cid, error_message, rep) ==
  LET f == Request(rep, report_contract_failure(d, cid, error_message), d)
  IN Out(f.db, p, FALSE, Call(r, "failed", cid, "", 0, f), Raised(f), FALSE)

\* ---- the celery chain of trigger_genai_analysis --------------------------
\* chain(change_state(processing), parse_document, analyze_clauses,
\*       evaluate_health, change_state(completed)), immutable signatures:
\* the next step is sent when the previous one returned; an exception ends the chain
NextStep(pc) ==
  CASE pc = "change_state_processing" -> "parse_document"
    [] pc = "parse_document" -> "analyze_clauses"
    [] pc = "parse_run" -> "analyze_clauses"
    [] pc = "analyze_clauses" -> "evaluate_health"
    [] pc = "evaluate_health" -> "evaluate_run"
    [] pc = "evaluate_run" -> "change_state_completed"
    [] pc = "change_state_completed" -> "done"

\* `immutable=True` of every signature of the chain
immutable == TRUE

\* what a link is called with besides its own arguments (the TaskInfo, and the
\* target state of change_state): nothing when its signature is immutable, the
\* return value of the link before it otherwise
LinkArgs(prev) == IF immutable THEN None ELSE Some(prev)

\* One run: its contract, the step the broker holds for it (pc), and whether the
\* steps are linked in a chain. has_clauses is what evaluate-health read; args is
\* what the step at pc was called with besides its own arguments. group is <<>>
\* for the linear chain; for the parallel variant it tells how far analyze-clauses
\* and evaluate-health, the two members of the group, have come.
\* History of the run: faulted, a callback or provider call of one of its steps
\* failed; provider, its last step called the AI provider; report, how its last
\* report-failure task ended.
NewTask(cid) ==
  [cid |-> cid, pc |-> "change_state_processing", chain |-> TRUE, has_clauses |-> FALSE,
   args |-> None, group |-> <<>>, faulted |-> FALSE, provider |-> FALSE, report |-> "none"]

Runs == DOMAIN tasks

\* create_parallel_analysis_workflow:
\* change_state.si(processing) | group(analyze.s, evaluate.s) | change_state.si(completed)
NextStepParallel(pc) ==
  CASE pc = "change_state_processing" -> "group"
    [] pc = "group" -> "change_state_completed"
    [] pc = "change_state_completed" -> "done"

\* the step after a step that returned: the next link of the chain, if any
After(t) ==
  IF ~t.chain THEN "done"
  ELSE IF t.group = <<>> THEN NextStep(t.pc)
  ELSE NextStepParallel(t.pc)

\* what the step after the step at t.pc is called with besides its own arguments:
\* the members of the group are `.s` signatures, which are handed the return value
\* of the link before the group
ArgsAfter(t) ==
  IF t.group # <<>> /\ After(t) = "group" THEN Some(t.pc) ELSE LinkArgs(t.pc)

\* the task returned or raised: move the chain
Finish(r, out) ==
  /\ db' = out.db
  /\ parsed' = out.parsed
  /\ lastCall' = out.call
  /\ tasks' = [tasks EXCEPT ![r].pc = IF out.raised THEN "failed" ELSE After(tasks[r]),
                            ![r].args = IF out.raised THEN @ ELSE ArgsAfter(tasks[r]),
                            ![r].faulted = @ \/ out.fault,
                            ![r].provider = out.provider]
  /\ UNCHANGED <<inflight, session, uploads>>

NoCall == Call(0, "none", 0, "", 0, Result(0, <<>>))

Init ==
  /\ db = <<>>
  /\ uploads = <<>>
  /\ parsed = {}
  /\ tasks = <<>>
  /\ lastCall = NoCall
  /\ session = NoSession
  /\ inflight = <<>>

\* ---- public API requests ---------------------------------------------------
\* a handler ran: store what it saved and remember the request
Served(op, cid, state, run_id, res) ==
  /\ db' = res.db
  /\ lastCall' = Call(0, op, cid, state, run_id, res)

\* create_contract: LocalStorage.save opens the path with "wb" and writes the
\* bytes of this upload, then the record is inserted
UploadOf(ids, days, filenames) ==
  \E day \in days, filename \in filenames, content_type \in ContentTypes :
    LET res == create_contract(db, day, filename, content_type)
    IN /\ FreshId(db) \in ids
       /\ Served("upload", FreshId(db), "", 0, res)
       /\ uploads' = IF res.code = 200
                      THEN (UploadPath(day, filename) :> FreshId(db)) @@ uploads
                      ELSE uploads
       /\ UNCHANGED <<inflight, session, parsed, tasks>>

Upload == UploadOf(ContractIds, Days, Filenames)

TriggerUpTo(max) ==
  \E cid \in RequestIds :
    LET run_id == Len(tasks) + 1
        res == trigger_genai_analysis(db, cid, run_id)
    IN /\ res.code = 200 => run_id <= max
       /\ Served("init-genai", cid, "", res.run_id, res)
       /\ tasks' = IF res.code = 200 THEN Append(tasks, NewTask(cid)) ELSE tasks
       /\ UNCHANGED <<inflight, session, uploads, parsed>>

Trigger == TriggerUpTo(MaxRuns)

UpdateStateWith(statuses, messages) ==
  \E cid \in RequestIds, status \in statuses, error_message \in messages :
    /\ Served("state", cid, status, 0, update_contract_state(db, cid, status, error_message))
    /\ UNCHANGED <<inflight, session, uploads, parsed, tasks>>

UpdateState == UpdateStateWith(StateStrings, {None, Some("manual")})

\* the same request, with the states that make a contract triggerable again
Retriggerable == UpdateStateWith(allowed_states, {None})

SaveAnalysis ==
  \E cid \in RequestIds, n \in ClauseCounts :
    /\ Served("analysis", cid, "", 0, save_analysis_result(db, cid, Analysis(n, 0)))
    /\ UNCHANGED <<inflight, session, uploads, parsed, tasks>>

SaveEvaluation ==
  \E cid \in RequestIds, approved \in BOOLEAN :
    /\ Served("evaluation", cid, "", 0, save_evaluation_result(db, cid, Evaluation(approved, 0)))
    /\ UNCHANGED <<inflight, session, uploads, parsed, tasks>>

AnalyzeDocument ==
  \E cid \in RequestIds, ai \in {None} \cup {Some(n) : n \in ClauseCounts} :
    /\ Served("analyze-document", cid, "", 0, analyze_document(db, uploads, cid, ai))
    /\ UNCHANGED <<inflight, session, uploads, parsed, tasks>>

EvaluateDocument ==
  \E cid \in RequestIds, ai \in {None} \cup {Some(b) : b \in BOOLEAN} :
    /\ Served("evaluate-document", cid, "", 0, evaluate_document(db, cid, ai))
    /\ UNCHANGED <<inflight, session, uploads, parsed, tasks>>

\* ---- internal API requests made with the internal token, outside a step ------
\* run ids a caller can send: those the triggers minted and one that no trigger
\* minted (a uuid4 is not guessed before it is minted)
ForeignRun == MaxRuns + 1
RunIds == Runs \cup {ForeignRun}

GetInternal ==
  \E cid \in RequestIds :
    /\ Served("get", cid, "", 0, get_contract_internal(db, cid))
    /\ UNCHANGED <<inflight, session, uploads, parsed, tasks>>

IsLatest ==
  \E cid \in RequestIds, run_id \in RunIds :
    /\ Served("is-latest", cid, "", run_id, is_pipeline_latest(db, cid, run_id))
    /\ UNCHANGED <<inflight, session, uploads, parsed, tasks>>

\* without a run id any string may be sent as the state; with a run id the
\* requests are the two the chain makes, for any run a trigger has minted
ChangeStateInputs ==
  (StateStrings \X {None}) \cup
  ({"processing", "completed"} \X {Some(r) : r \in Runs})

ChangeState ==
  \E cid \in RequestIds, in \in ChangeStateInputs :
    LET state == in[1]
        run_id == in[2]
    IN /\ (Found(db, cid) /\ run_id # None) => Len(db[cid].pipeline_runs) < MaxEntries
       /\ Served("change-state", cid, state, RunIdOf(run_id),
                 change_contract_state(db, cid, state, run_id))
       /\ UNCHANGED <<inflight, session, uploads, parsed, tasks>>

SetAnalysisResult ==
  \E cid \in RequestIds, n \in ClauseCounts :
    /\ Served("set-analysis-result", cid, "", 0, set_analysis_result(db, cid, Analysis(n, 0)))
    /\ UNCHANGED <<inflight, session, uploads, parsed, tasks>>

SetEvaluationResult ==
  \E cid \in RequestIds, approved \in BOOLEAN :
    /\ Served("set-evaluation-result", cid, "", 0,
              set_evaluation_result(db, cid, Evaluation(approved, 0)))
    /\ UNCHANGED <<inflight, session, uploads, parsed, tasks>>

ReportFailure ==
  \E cid \in RequestIds :
    /\ Served("failed", cid, "", 0, report_contract_failure(db, cid, "task failure"))
    /\ UNCHANGED <<inflight, session, uploads, parsed, tasks>>

\* ---- worker tasks (main.py): each calls executor.run --------------------------
change_contract_state_task(r) ==
  \E net \in Attempts, rep \in Attempts :
    /\ tasks[r].pc \in {"change_state_processing", "change_state_completed"}
    /\ Finish(r, ChangeStateExecutor_run(db, parsed, r, tasks[r].cid,
                   IF tasks[r].pc = "change_state_processing" THEN "processing" ELSE "completed",
                   net, rep))

analyze_contract_clauses_task(r) ==
  \E ai \in AnalyzeOutcomes, net \in Attempts, rep \in Attempts :
    /\ tasks[r].pc = "analyze_clauses"
    /\ Finish(r, AnalyzeContractExecutor_run(db, parsed, r, tasks[r].cid, ai, net, rep))

\* first half of EvaluateContractExecutor.run: get_contract and what it shows
evaluate_contract_health_get(r) ==
  \E net \in Attempts, rep \in Attempts :
    LET cid == tasks[r].cid
        res == Request(net, get_contract_internal(db, cid), db)
    IN /\ tasks[r].pc = "evaluate_health"
       /\ IF Raised(res)
          THEN Finish(r, ReportAndRaise(db, parsed, r, cid, "Evaluation failed", rep, TRUE, FALSE))
          ELSE /\ tasks' = [tasks EXCEPT ![r].pc = "evaluate_run",
                                         ![r].has_clauses = HasClauses(db[cid].analysis_result),
                                         ![r].provider = FALSE]
               /\ lastCall' = Call(r, "get", cid, "", 0, res)
               /\ UNCHANGED <<inflight, session, db, uploads, parsed>>

evaluate_contract_health_task(r) ==
  \E ai \in EvaluateOutcomes, net \in Attempts, rep \in Attempts :
    /\ tasks[r].pc = "evaluate_run"
    /\ Finish(r, EvaluateContractExecutor_run(db, parsed, r, tasks[r].cid,
                                              tasks[r].has_clauses, ai, net, rep))

\* ContractTaskExecutor.start: run only when the run is the latest; a step that
\* is skipped returns None and the chain goes on
ContractTaskExecutor_start(r) ==
  \E net \in Attempts :
    LET cid == tasks[r].cid
        res == Request(net, is_pipeline_latest(db, cid, r), db)
    IN /\ tasks[r].pc = "parse_document"
       /\ tasks' = [tasks EXCEPT ![r].pc = IF APIClient_is_pipeline_latest(res)
                                           THEN "parse_run" ELSE NextStep(@),
                                 ![r].args = IF APIClient_is_pipeline_latest(res)
                                             THEN @ ELSE LinkArgs(tasks[r].pc),
                                 ![r].faulted = @ \/ Raised(res),
                                 ![r].provider = FALSE]
       /\ lastCall' = Call(r, "is-latest", cid, "", r, res)
       /\ UNCHANGED <<inflight, session, db, uploads, parsed>>

parse_document_task(r) ==
  \E text \in BOOLEAN, net \in Attempts, rep \in Attempts :
    /\ tasks[r].pc = "parse_run"
    /\ Finish(r, ParseContractExecutor_run(db, uploads, parsed, r, tasks[r].cid, text, net, rep))

\* register_tasks and the @celery_app.task functions of the worker name four
\* tasks; contract_analysis.parse_document, the second link of the chain, is not
\* among them. A worker that has no task of that name drops the message: the
\* links after it are never sent and nothing is reported.
parse_document_unregistered(r) ==
  /\ tasks[r].pc = "parse_document"
  /\ tasks' = [tasks EXCEPT ![r].pc = "unregistered", ![r].provider = FALSE]
  /\ UNCHANGED <<inflight, session, db, uploads, parsed, lastCall>>

Worker ==
  \E r \in Runs :
    \/ change_contract_state_task(r)
    \/ ContractTaskExecutor_start(r)
    \/ parse_document_task(r)
    \/ parse_document_unregistered(r)
    \/ analyze_contract_clauses_task(r)
    \/ evaluate_contract_health_get(r)
    \/ evaluate_contract_health_task(r)

\* ---- tasks sent on their own ----------------------------------------------------
\* message of an on_error link of create_analysis_workflow
FailureMessages == {"Failed to evaluate contract health"}

\* message of the on_error link of the group of create_parallel_analysis_workflow
GroupFailureMessages == {"Failed during parallel analysis"}

\* contract_analysis.report_failure, executed with the TaskInfo of run r: the
\* on_error link of a task that raised (a link may be delivered more than once)
report_contract_failure_task(r) ==
  \E error_message \in IF tasks[r].group = <<>> THEN FailureMessages ELSE GroupFailureMessages,
     rep \in Attempts :
    LET out == ReportFailureExecutor_run(db, parsed, r, tasks[r].cid, error_message, rep)
    IN /\ tasks[r].pc = "failed"
       /\ db' = out.db
       /\ lastCall' = out.call
       /\ tasks' = [tasks EXCEPT ![r].report = IF out.raised THEN "raised" ELSE "returned"]
       /\ UNCHANGED <<inflight, session, uploads, parsed>>

ReportFailureTask == \E r \in Runs : report_contract_failure_task(r)

\* contract_analysis.evaluate_health sent outside a chain, with a TaskInfo of its
\* own (a run id that is in no run list)
DispatchEvaluate ==
  \E cid \in DOMAIN db :
    /\ Len(tasks) < MaxChains
    /\ tasks' = Append(tasks, [NewTask(cid) EXCEPT !.pc = "evaluate_health", !.chain = FALSE])
    /\ UNCHANGED <<inflight, session, db, uploads, parsed, lastCall>>

\* the worker executes a step of an evaluate-health task that is in no chain
EvaluateAlone ==
  \E r \in Runs :
    /\ ~tasks[r].chain
    /\ \/ evaluate_contract_health_get(r)
       \/ evaluate_contract_health_task(r)

\* ---- the parallel variant --------------------------------------------------------
\* create_parallel_analysis_workflow, applied: nothing is added to the run list
DispatchParallel ==
  \E cid \in DOMAIN db :
    /\ Len(tasks) < MaxChains
    /\ tasks' = Append(tasks, [NewTask(cid) EXCEPT !.group = <<"sent", "sent">>])
    /\ UNCHANGED <<inflight, session, db, uploads, parsed, lastCall>>

\* `def analyze_contract_clauses(self, task_info_dict)`: a task function that is
\* called with one more positional argument raises TypeError before its body runs
TakesArgs(t) == t.args = None

\* the task of a member raised TypeError: no executor ran, nothing is reported
MemberTypeError(r, i) ==
  /\ tasks' = [tasks EXCEPT ![r].group[i] = "raised"]
  /\ UNCHANGED <<inflight, session, db, uploads, parsed, lastCall>>

\* the executor of a member returned or raised
MemberFinish(r, i, out) ==
  /\ db' = out.db
  /\ parsed' = out.parsed
  /\ lastCall' = out.call
  /\ tasks' = [tasks EXCEPT ![r].group[i] = IF out.raised THEN "raised" ELSE "returned",
                            ![r].faulted = @ \/ out.fault,
                            ![r].provider = out.provider]
  /\ UNCHANGED <<inflight, session, uploads>>

\* analyze-clauses as a member of the group
group_analyze_contract_clauses(r) ==
  \E ai \in AnalyzeOutcomes, net \in Attempts, rep \in Attempts :
    /\ tasks[r].pc = "group"
    /\ tasks[r].group[1] = "sent"
    /\ IF ~TakesArgs(tasks[r])
       THEN MemberTypeError(r, 1)
       ELSE MemberFinish(r, 1, AnalyzeContractExecutor_run(db, parsed, r, tasks[r].cid, ai, net, rep))

\* evaluate-health as a member of the group: get_contract, then the rest
group_evaluate_contract_health(r) ==
  \E ai \in EvaluateOutcomes, net \in Attempts, rep \in Attempts :
    LET cid == tasks[r].cid
        res == Request(net, get_contract_internal(db, cid), db)
    IN /\ tasks[r].pc = "group"
       /\ \/ /\ tasks[r].group[2] = "sent"
             /\ IF ~TakesArgs(tasks[r])
                THEN MemberTypeError(r, 2)
                ELSE IF Raised(res)
                THEN MemberFinish(r, 2, ReportAndRaise(db, parsed, r, cid, "Evaluation failed",
                                                        rep, TRUE, FALSE))
                ELSE /\ tasks' = [tasks EXCEPT ![r].group[2] = "read",
                                               ![r].has_clauses = HasClauses(db[cid].analysis_result)]
                     /\ lastCall' = Call(r, "get", cid, "", 0, res)
                     /\ UNCHANGED <<inflight, session, db, uploads, parsed>>
          \/ /\ tasks[r].group[2] = "read"
             /\ MemberFinish(r, 2, EvaluateContractExecutor_run(db, parsed, r, cid,
                                       tasks[r].has_clauses, ai, net, rep))

\* the group has ended: the link after it, change_state.si(completed), is sent
\* when both members returned; when one raised, the on_error link is sent instead
group_end(r) ==
  /\ tasks[r].pc = "group"
  /\ \A i \in 1..2 : tasks[r].group[i] \in {"returned", "raised"}
  /\ tasks' = [tasks EXCEPT ![r].pc = IF \A i \in 1..2 : tasks[r].group[i] = "returned"
                                       THEN After(tasks[r]) ELSE "failed",
                            ![r].args = None]
  /\ UNCHANGED <<inflight, session, db, uploads, parsed, lastCall>>

ParallelWorker ==
  \E r \in Runs :
    \/ change_contract_state_task(r)
    \/ group_analyze_contract_clauses(r)
    \/ group_evaluate_contract_health(r)
    \/ group_end(r)

\* LocalStorage.delete: the raw upload is removed from the Blob Store
RemoveBlob ==
  \E path \in DOMAIN uploads :
    /\ uploads' = [x \in DOMAIN uploads \ {path} |-> uploads[x]]
    /\ UNCHANGED <<inflight, session, db, parsed, tasks, lastCall>>

\* ---- bearer tokens ---------------------------------------------------------------
\* login_user: a user logs in and gets a token
Login ==
  \E username \in Users :
    /\ session' = [session EXCEPT !.issued = @ \cup {create_access_token(username)}]
    /\ UNCHANGED <<inflight, db, uploads, parsed, tasks, lastCall>>

\* the tokens in circulation: those of the users who logged in, and the internal
\* token that every accepted trigger mints and puts into the TaskInfo of its chain
Issued ==
  session.issued \cup (IF Len(tasks) > 0 THEN {generate_internal_token} ELSE {})

\* a holder of a token, or of a payload signed with a key of their own, presents
\* it to a user-facing endpoint or to an internal endpoint
Authenticate ==
  \E token \in Issued \cup {Forged(t) : t \in Issued}, endpoint \in {"user", "internal"} :
    /\ session' = [session EXCEPT !.token = token,
                                  !.endpoint = endpoint,
                                  !.code = IF endpoint = "user"
                                           THEN get_current_user(token)
                                           ELSE verify_internal_token(token)]
    /\ UNCHANGED <<inflight, db, uploads, parsed, tasks, lastCall>>

\* The pipeline: uploads, triggers, the public state endpoint (the one request
\* that can make a contract triggerable while a run is in flight) and the workers.
Next ==
  \/ Upload
  \/ Trigger
  \/ Retriggerable
  \/ Worker

Spec == Init /\ [][Next]_vars

\* The API alone: every handler, called by any client with any input.
NextApi ==
  \/ Upload
  \/ Trigger
  \/ UpdateState
  \/ SaveAnalysis
  \/ SaveEvaluation
  \/ AnalyzeDocument
  \/ EvaluateDocument
  \/ GetInternal
  \/ IsLatest
  \/ ChangeState
  \/ SetAnalysisResult
  \/ SetEvaluationResult
  \/ ReportFailure

SpecApi == Init /\ [][NextApi]_vars

\* The chains: uploads, triggers and the steps of the chains; the Blob Store may
\* lose an upload.
NextTasks ==
  \/ Upload
  \/ RemoveBlob
  \/ TriggerUpTo(MaxChains)
  \/ Worker

SpecTasks == Init /\ [][NextTasks]_vars

\* Tasks sent on their own: evaluate-health outside a chain and report-failure,
\* on contracts that were uploaded and may have been given an analysis result.
NextAlone ==
  \/ Upload
  \/ SetAnalysisResult
  \/ DispatchEvaluate
  \/ EvaluateAlone
  \/ ReportFailureTask

SpecAlone == Init /\ [][NextAlone]_vars

\* The parallel variant: runs of create_parallel_analysis_workflow on contracts
\* that were uploaded and may have been given an analysis result.
NextParallel ==
  \/ Upload
  \/ SetAnalysisResult
  \/ DispatchParallel
  \/ ParallelWorker
  \/ ReportFailureTask

SpecParallel == Init /\ [][NextParallel]_vars

\* The bearer tokens: logins, triggers (each mints an internal token) and the
\* credential check of the endpoints.
NextAuth ==
  \/ Upload
  \/ TriggerUpTo(MaxChains)
  \/ Retriggerable
  \/ Login
  \/ Authenticate

SpecAuth == Init /\ [][NextAuth]_vars

TypeOK ==
  /\ DOMAIN db \subseteq ContractIds
  /\ \A r \in Runs : tasks[r].cid \in DOMAIN db

\* ---- helpers of the properties ------------------------------------------------
\* this step served a request (or callback) of the given endpoint
Serves(op) == lastCall' # lastCall /\ lastCall'.op = op

IsPrefix(s, t) == Len(s) <= Len(t) /\ SubSeq(t, 1, Len(s)) = s

\* run r was superseded: a run of the same contract was triggered after it
Superseded(r) == \E r2 \in Runs : r2 > r /\ tasks[r2].cid = tasks[r].cid

\* this step is a worker executing (part of) a step of run r
StepOf(r) == tasks'[r] # tasks[r]

\* ---- C1 -----------------------------------------------------------------------
\* C1: in every contract record, evaluation_result is non-null only if
\* analysis_result is non-null.
C1_EvaluationOnlyWithAnalysis ==
  \A cid \in DOMAIN db :
    db[cid].evaluation_result # None => db[cid].analysis_result # None

\* ---- C2 -----------------------------------------------------------------------
\* C2: a pipeline step executed for a run that is not the latest run of its
\* contract writes nothing (no contract record, no blob) and makes no callback
\* other than the is-latest check.
C2_StaleStepIsNoop ==
  [][\A r \in Runs :
       (StepOf(r) /\ Superseded(r)) =>
         /\ db' = db
         /\ parsed' = parsed
         /\ uploads' = uploads
         /\ lastCall' # lastCall => lastCall'.op = "is-latest"]_vars

\* ---- C3 -----------------------------------------------------------------------
\* C3: once a newer run exists for a contract, no step of the older run changes
\* the contract record: not its state, analysis result, evaluation result, error
\* message or run list.
C3_StaleWritesNotInRecord ==
  [][\A r \in Runs :
       (StepOf(r) /\ Superseded(r)) =>
         LET old == db[tasks[r].cid]
             new == db'[tasks[r].cid]
         IN /\ new.status = old.status
            /\ new.analysis_result = old.analysis_result
            /\ new.evaluation_result = old.evaluation_result
            /\ new.error_message = old.error_message
            /\ new.pipeline_runs = old.pipeline_runs]_vars

\* ---- C4 -----------------------------------------------------------------------
\* every chain that was started came to its end
AllChainsEnded == \A r \in Runs : tasks[r].pc \in {"done", "failed"}

\* the runs whose change-state(completed) step was recorded in the run list
CompletedRuns(cid) ==
  {db[cid].pipeline_runs[i].run_id :
     i \in {j \in DOMAIN db[cid].pipeline_runs : db[cid].pipeline_runs[j].state = "completed"}}

\* C4: a trigger that directly follows an accepted trigger of the same contract is
\* accepted too; when both chains have ended the run list has length 2 and, if a
\* run completed, it is the later one alone; and the steps of the earlier run are
\* no-ops once the second run exists.
C4_DoubleTrigger ==
  /\ [][(lastCall.op = "init-genai" /\ lastCall.code = 200
          /\ Serves("init-genai") /\ lastCall'.cid = lastCall.cid)
         => lastCall'.code = 200]_vars
  /\ [](\A cid \in DOMAIN db :
          (AllChainsEnded /\ Cardinality({r \in Runs : tasks[r].cid = cid}) = 2) =>
            /\ Len(db[cid].pipeline_runs) = 2
            /\ CompletedRuns(cid) \subseteq {2})
  /\ [][\A r \in Runs : (StepOf(r) /\ Superseded(r)) => db' = db]_vars

\* ---- C5 -----------------------------------------------------------------------
\* C5: the is-latest endpoint answers true exactly when the run list is non-empty
\* and the run id of its last element equals the supplied run id; for an empty
\* run list it answers false.
C5_IsLatestIsLastElement ==
  (lastCall.op = "is-latest" /\ lastCall.code = 200) =>
    LET runs == db[lastCall.cid].pipeline_runs
    IN lastCall.is_latest <=>
         (runs # <<>> /\ \E i \in DOMAIN runs :
                            i = Len(runs) /\ runs[i].run_id = lastCall.run_id)

\* is-latest answered true for the last element although an earlier entry
\* carries another run id
C5_Witness ==
  /\ lastCall.op = "is-latest" /\ lastCall.code = 200 /\ lastCall.is_latest
  /\ Len(db[lastCall.cid].pipeline_runs) >= 2
  /\ db[lastCall.cid].pipeline_runs[1].run_id # lastCall.run_id

\* ---- C6 -----------------------------------------------------------------------
\* C6: an accepted trigger appends exactly one entry to the run list, carrying the
\* newly minted run id it returns, and leaves every earlier entry unchanged in
\* content and position.
C6_TriggerAppendsOneRun ==
  [][(Serves("init-genai") /\ lastCall'.code = 200) =>
       LET cid == lastCall'.cid
           old == db[cid].pipeline_runs
           new == db'[cid].pipeline_runs
       IN /\ Len(new) = Len(old) + 1
          /\ \A i \in DOMAIN old : new[i] = old[i]
          /\ new[Len(new)].run_id = lastCall'.run_id]_vars

\* a trigger was accepted on a contract that already had run entries
C6_Witness ==
  /\ lastCall.op = "init-genai" /\ lastCall.code = 200
  /\ Len(db[lastCall.cid].pipeline_runs) >= 2
  /\ db[lastCall.cid].pipeline_runs[Len(db[lastCall.cid].pipeline_runs)].run_id = lastCall.run_id

C8_StateIsEnumerated ==
  \A cid \in DOMAIN db : db[cid].status \in ContractState

\* ---- C9 -----------------------------------------------------------------------
\* the state of an existing contract changed in this step
StateChanged(cid) == cid \in DOMAIN db /\ db'[cid].status # db[cid].status

\* C9 as stated: the state of an existing contract changes only as the effect of
\* an internal change-state or report-failure call.
C9_OnlyInternalCallbacksChangeState ==
  [][\A cid \in DOMAIN db :
       StateChanged(cid) => (Serves("change-state") \/ Serves("failed"))]_vars

\* C9 as amended: the state of an existing contract changes only as the effect of a
\* successful internal change-state or report-failure call, an accepted trigger
\* (to processing), the public state endpoint, or the public save-analysis
\* (to analyzing) and save-evaluation (to evaluating) endpoints; every other
\* request leaves it as it is.
C9_StateChangingRequests ==
  [][\A cid \in DOMAIN db :
       StateChanged(cid) =>
         /\ lastCall'.code = 200 /\ lastCall'.cid = cid
         /\ \/ Serves("change-state") /\ db'[cid].status = lastCall'.state
            \/ Serves("failed") /\ db'[cid].status = "failed"
            \/ Serves("init-genai") /\ db'[cid].status = "processing"
            \/ Serves("state") /\ db'[cid].status = lastCall'.state
            \/ Serves("analysis") /\ db'[cid].status = "analyzing"
            \/ Serves("evaluation") /\ db'[cid].status = "evaluating"]_vars

\* an accepted trigger moved a completed contract to processing
C9_Witness ==
  /\ lastCall.op = "init-genai" /\ lastCall.code = 200
  /\ db[lastCall.cid].status = "processing"
  /\ \E i \in DOMAIN db[lastCall.cid].pipeline_runs :
        db[lastCall.cid].pipeline_runs[i].state = "completed"

\* ---- C10 ----------------------------------------------------------------------
\* C10: a change-state call on an existing contract with a recognized target state
\* succeeds from every state and leaves the contract in the target state; a target
\* that is not a recognized state is rejected with an error and changes nothing.
C10_ChangeStateUnguarded ==
  [][(Serves("change-state") /\ lastCall'.cid \in DOMAIN db) =>
       LET cid == lastCall'.cid
       IN IF lastCall'.state \in ContractState
          THEN lastCall'.code = 200 /\ db'[cid].status = lastCall'.state
          ELSE lastCall'.code = 400 /\ db' = db]_vars

\* change-state moved a contract whose last run entry says completed back to pending
C10_Witness ==
  /\ lastCall.op = "change-state" /\ lastCall.code = 200 /\ lastCall.state = "pending"
  /\ db[lastCall.cid].status = "pending"
  /\ db[lastCall.cid].pipeline_runs # <<>>
  /\ db[lastCall.cid].pipeline_runs[Len(db[lastCall.cid].pipeline_runs)].state = "completed"

\* ---- C11 ----------------------------------------------------------------------
\* the chain of run r has come to rest: its last link returned, a link raised, or
\* a link was sent to a worker that has no task of that name
AtRest(r) == tasks[r].pc \in {"done", "failed", "unregistered"}

\* run r is the only run, no callback or provider call of it failed, the blob of
\* its contract is in the Blob Store, and what the provider answered was the JSON
\* asked for, with at least one clause
HappyPath(r) ==
  LET c == db[tasks[r].cid]
  IN /\ Len(tasks) = 1
     /\ tasks[r].chain
     /\ ~tasks[r].faulted
     /\ c.file_path \in DOMAIN uploads
     /\ c.analysis_result # None =>
          c.analysis_result[1].clauses > 0 /\ ~c.analysis_result[1].fabricated
     /\ c.evaluation_result # None => ~c.evaluation_result[1].fabricated

\* C11: liveness of the happy path, in the form a finite run refutes: when the one
\* run of a contract whose blob exists has come to rest and no provider or callback
\* call of it failed, the contract is completed, with an analysis result of at
\* least one clause and an evaluation result (approved is a boolean).
C11_HappyPathCompletes ==
  \A r \in Runs :
    (AtRest(r) /\ HappyPath(r)) =>
      LET c == db[tasks[r].cid]
      IN /\ c.status = "completed"
         /\ HasClauses(c.analysis_result)
         /\ c.evaluation_result # None
         /\ c.evaluation_result[1].approved \in BOOLEAN

\* ---- C12 ----------------------------------------------------------------------
\* the one run r found no blob under the stored path of its contract: it has come
\* to rest, it wrote no parsed text, the blob is gone and none of its callbacks
\* failed
BlobWasMissing(r) ==
  /\ Len(tasks) = 1
  /\ tasks[r].chain
  /\ AtRest(r)
  /\ ~tasks[r].faulted
  /\ db[tasks[r].cid].file_path \notin DOMAIN uploads
  /\ <<tasks[r].cid, r>> \notin parsed

\* C12: a run triggered on a contract whose blob is missing from the Blob Store
\* ends at the parse-document step, which raises; no later step executes (no
\* result is written, the provider is not called) and the contract is failed with
\* an error message that starts with "Parsing failed".
C12_MissingBlobFailsParsing ==
  \A r \in Runs :
    BlobWasMissing(r) =>
      LET c == db[tasks[r].cid]
      IN /\ tasks[r].pc = "failed"
         /\ c.status = "failed"
         /\ c.error_message = Some("Parsing failed")
         /\ c.analysis_result = None
         /\ c.evaluation_result = None
         /\ ~tasks[r].provider

\* ---- C13 ----------------------------------------------------------------------
\* this step is evaluate-health of run r going on after get_contract showed a
\* contract without an analysis result (null, or one that holds no clause)
EvaluatesWithoutAnalysis(r) ==
  /\ tasks[r].pc = "evaluate_run"
  /\ ~tasks[r].has_clauses
  /\ StepOf(r)

\* C13, as claimed: evaluate-health on a contract whose analysis result is null
\* fails with the validation error, calls no AI provider operation, persists no
\* evaluation result and leaves the state of the contract unchanged.
C13_ValidationLeavesStateUnchanged ==
  [][\A r \in Runs :
       EvaluatesWithoutAnalysis(r) =>
         LET cid == tasks[r].cid
         IN /\ tasks'[r].pc = "failed"
            /\ ~tasks'[r].provider
            /\ db'[cid].evaluation_result = db[cid].evaluation_result
            /\ db'[cid].status = db[cid].status]_vars

\* C13, amended: the step raises, calls no AI provider operation and persists no
\* evaluation result; it reports the failure, so the contract becomes failed with
\* the message "Evaluation failed" when the report-failure callback is served,
\* and the record is unchanged when it is not.
C13_ValidationReportsFailure ==
  [][\A r \in Runs :
       EvaluatesWithoutAnalysis(r) =>
         LET cid == tasks[r].cid
         IN /\ tasks'[r].pc = "failed"
            /\ ~tasks'[r].provider
            /\ db'[cid].evaluation_result = db[cid].evaluation_result
            /\ db'[cid].analysis_result = db[cid].analysis_result
            /\ lastCall'.op = "failed" /\ lastCall'.by = r /\ lastCall'.cid = cid
            /\ IF lastCall'.code = 200
               THEN /\ db'[cid].status = "failed"
                    /\ db'[cid].error_message = Some("Evaluation failed")
               ELSE db' = db]_vars

\* an evaluate-health task sent on its own found no analysis result, and the
\* failure it reported was recorded
C13_Witness ==
  \E r \in Runs :
    /\ ~tasks[r].chain
    /\ tasks[r].pc = "failed"
    /\ ~tasks[r].has_clauses
    /\ ~tasks[r].faulted
    /\ lastCall.op = "failed" /\ lastCall.by = r /\ lastCall.code = 200
    /\ db[tasks[r].cid].analysis_result = None
    /\ db[tasks[r].cid].evaluation_result = None
    /\ db[tasks[r].cid].status = "failed"
    /\ db[tasks[r].cid].error_message = Some("Evaluation failed")

\* ---- C14 ----------------------------------------------------------------------
\* this step is a step of the chain of run r raising
StepRaises(r) ==
  /\ tasks[r].chain
  /\ tasks[r].pc # "failed"
  /\ tasks'[r].pc = "failed"

\* the failure text of each step (its fixed prefix)
StepMessage(pc) ==
  CASE pc \in {"change_state_processing", "change_state_completed"} -> "State change failed"
    [] pc = "parse_run" -> "Parsing failed"
    [] pc = "analyze_clauses" -> "Analysis failed"
    [] pc \in {"evaluate_health", "evaluate_run"} -> "Evaluation failed"

\* a chain that raised sends no further link
RaisedChainStops ==
  [][\A r \in Runs : tasks[r].pc = "failed" => tasks'[r].pc = "failed"]_vars

\* C14, as claimed: whenever a step of the chain raises, report-failure is invoked
\* for its contract with the step's own message and the contract then is failed
\* with that message as its error message; the step re-raises, so no later step
\* of the chain is executed.
C14_RaisingStepMakesContractFailed ==
  /\ [][\A r \in Runs :
          StepRaises(r) =>
            LET cid == tasks[r].cid
            IN /\ lastCall'.op = "failed" /\ lastCall'.by = r /\ lastCall'.cid = cid
               /\ db'[cid].status = "failed"
               /\ db'[cid].error_message = Some(StepMessage(tasks[r].pc))]_vars
  /\ RaisedChainStops

\* C14, amended: whenever a step of the chain raises, its last callback is the
\* report-failure call for its contract, made at most three times; when the call
\* is served the contract is failed with the step's own message as its error
\* message, when no attempt is served the record is as it was before the step;
\* in both cases no later step of the chain is executed.
C14_RaisingStepReportsFailure ==
  /\ [][\A r \in Runs :
          StepRaises(r) =>
            LET cid == tasks[r].cid
            IN /\ lastCall'.op = "failed" /\ lastCall'.by = r /\ lastCall'.cid = cid
               /\ lastCall'.tries <= MaxAttempts
               /\ IF lastCall'.code = 200
                  THEN /\ db'[cid].status = "failed"
                       /\ db'[cid].error_message = Some(StepMessage(tasks[r].pc))
                  ELSE db' = db]_vars
  /\ RaisedChainStops

\* a step of the second run of a contract raised and its failure report was
\* served, after the first run had raised too: the contract is failed with the
\* text of the later failure
C14_Witness ==
  \E r \in Runs :
    /\ r > 1
    /\ tasks[r].chain
    /\ tasks[r].pc = "failed"
    /\ tasks[r - 1].pc = "failed"
    /\ tasks[r - 1].cid = tasks[r].cid
    /\ lastCall.op = "failed" /\ lastCall.by = r /\ lastCall.code = 200
    /\ db[tasks[r].cid].status = "failed"
    /\ db[tasks[r].cid].error_message = Some("State change failed")

\* ---- C15 ----------------------------------------------------------------------
\* C15: a report-failure call that is served leaves the contract failed and
\* changes nothing else but the error message, so a second call changes the error
\* message alone; and a report-failure task never raises, also when every attempt
\* of its callback fails.
C15_ReportFailureIdempotentNeverRaises ==
  /\ [][(Serves("failed") /\ lastCall'.code = 200) =>
          LET cid == lastCall'.cid
          IN /\ db'[cid].status = "failed"
             /\ db'[cid].error_message # None
             /\ db' = [db EXCEPT ![cid].status = "failed",
                                 ![cid].error_message = db'[cid].error_message]]_vars
  /\ [](\A r \in Runs : tasks[r].report # "raised")

\* the step of run r reported its failure, a report-failure task for r was served
\* after it and overwrote the message, and a further report-failure task, whose
\* callback failed three times, returned
C15_Witness ==
  \E r \in Runs :
    /\ tasks[r].pc = "failed"
    /\ ~tasks[r].faulted
    /\ tasks[r].report = "returned"
    /\ lastCall.op = "failed" /\ lastCall.by = r
    /\ lastCall.code # 200 /\ lastCall.tries = MaxAttempts
    /\ db[tasks[r].cid].status = "failed"
    /\ db[tasks[r].cid].error_message = Some("Failed to evaluate contract health")

InternalOps ==
  {"get", "is-latest", "change-state", "set-analysis-result", "set-evaluation-result", "failed"}

\* what every internal handler does with the id of a contract that does not
\* exist (the id the next upload would get): Not-Found, and no record changes
NotFoundForAbsentContract ==
  LET cid == FreshId(db)
      r404 == Result(404, db)
  IN /\ get_contract_internal(db, cid) = r404
     /\ \A run_id \in RunIds : is_pipeline_latest(db, cid, run_id) = r404
     /\ \A in \in ChangeStateInputs : change_contract_state(db, cid, in[1], in[2]) = r404
     /\ \A n \in ClauseCounts : set_analysis_result(db, cid, Analysis(n, 0)) = r404
     /\ \A b \in BOOLEAN : set_evaluation_result(db, cid, Evaluation(b, 0)) = r404
     /\ report_contract_failure(db, cid, "task failure") = r404

\* C17: an internal handler called with the id of a contract that does not exist
\* answers Not-Found and changes no record; on an existing contract
\* set-analysis-result changes only analysis_result, set-evaluation-result only
\* evaluation_result, change-state only the state and the run list, and
\* get-contract and is-latest change nothing.
C17_InternalHandlersFrame ==
  /\ [](NotFoundForAbsentContract)
  /\ [][\A op \in InternalOps :
          Serves(op) =>
            LET cid == lastCall'.cid
            IN IF lastCall'.code # 200
               THEN db' = db
               ELSE CASE op = "set-analysis-result" ->
                           db' = [db EXCEPT ![cid].analysis_result = db'[cid].analysis_result]
                      [] op = "set-evaluation-result" ->
                           db' = [db EXCEPT ![cid].evaluation_result = db'[cid].evaluation_result]
                      [] op = "change-state" ->
                           db' = [db EXCEPT ![cid].status = db'[cid].status,
                                            ![cid].pipeline_runs = db'[cid].pipeline_runs]
                      [] op \in {"get", "is-latest"} -> db' = db
                      [] op = "failed" -> TRUE]_vars

\* set-evaluation-result was served for a pending contract that has no analysis
\* result: the evaluation result is stored and the contract is still pending
C17_Witness ==
  /\ lastCall.op = "set-evaluation-result"
  /\ lastCall.code = 200
  /\ db[lastCall.cid].evaluation_result # None
  /\ db[lastCall.cid].analysis_result = None
  /\ db[lastCall.cid].status = "pending"
  /\ db[lastCall.cid].pipeline_runs = <<>>

\* ---- C18 ----------------------------------------------------------------------
\* the place of a step in the chain (the two halves of a step share a place)
Rank(pc) ==
  CASE pc = "change_state_processing" -> 1
    [] pc \in {"parse_document", "parse_run"} -> 2
    [] pc = "analyze_clauses" -> 3
    [] pc \in {"evaluate_health", "evaluate_run"} -> 4
    [] pc = "change_state_completed" -> 5
    [] pc = "done" -> 6

\* the durable writes of the step at pc, as the record and the Blob Store show
\* them at the moment the step returned
WritesOf(r, pc, d, p) ==
  LET c == d[tasks[r].cid]
  IN CASE pc = "change_state_processing" ->
            /\ c.status = "processing"
            /\ LastRunIs(c.pipeline_runs, r)
       [] pc = "parse_run" -> <<tasks[r].cid, r>> \in p
       [] pc = "analyze_clauses" ->
            c.analysis_result # None /\ c.analysis_result[1].run_id = r
       [] pc = "evaluate_run" ->
            c.evaluation_result # None /\ c.evaluation_result[1].by = r
       [] pc = "change_state_completed" ->
            /\ c.status = "completed"
            /\ LastRunIs(c.pipeline_runs, r)
       [] OTHER -> TRUE

CallbackOf(r) == StepOf(r) /\ lastCall' # lastCall /\ lastCall'.by = r

\* C19: every callback a step makes ends after at most three attempts, and when
\* all three fail the exception reaches the executor of the step, which raises;
\* the is-latest check is no exception.
C19_ExhaustedCallbackPropagates ==
  [][\A r \in Runs :
       CallbackOf(r) =>
         /\ lastCall'.tries \in 1..MaxAttempts
         /\ lastCall'.code # 200 =>
              /\ lastCall'.tries = MaxAttempts
              /\ tasks'[r].pc = "failed"]_vars

C21_TokensNotInterchangeable ==
  /\ ~(/\ session.endpoint = "internal"
       /\ session.code = 200
       /\ session.token \in session.issued)
  /\ ~(/\ session.endpoint = "user"
       /\ session.code = 200
       /\ session.token = generate_internal_token)

\* ---- C22 ----------------------------------------------------------------------
\* this step is the worker executing member i of the group of run r
MemberStep(r, i) ==
  /\ tasks[r].pc = "group"
  /\ tasks'[r].group[i] # tasks[r].group[i]

\* C22: in the parallel variant analyze-clauses and evaluate-health of a run are
\* executed with no order between them: evaluate-health, executed while the
\* analysis result of its run is not yet persisted, reads the contract; and
\* change-state(completed) is dispatched only after both have returned.
C22_ParallelStepsUnordered ==
  /\ [][\A r \in Runs :
          (MemberStep(r, 2) /\ tasks[r].group[2] = "sent" /\ tasks[r].group[1] # "returned") =>
            /\ lastCall' # lastCall
            /\ lastCall'.by = r
            /\ lastCall'.op \in {"get", "failed"}]_vars
  /\ [][\A r \in Runs :
          (tasks[r].pc = "group" /\ tasks'[r].pc = "change_state_completed") =>
            \A i \in 1..2 : tasks[r].group[i] = "returned"]_vars

\* ---- C23 ----------------------------------------------------------------------
\* C23: the trigger endpoint accepts a request exactly when the contract exists
\* and is pending, failed or completed. An accepted request sets the state to
\* processing, appends one run entry and returns its run id, which is the run id
\* of the chain it dispatches; a rejected one answers with an error, mints no run
\* id, dispatches no chain and leaves the record unchanged.
C23_TriggerGuard ==
  [][Serves("init-genai") =>
       LET cid == lastCall'.cid
       IN IF Found(db, cid) /\ db[cid].status \in {"pending", "failed", "completed"}
          THEN /\ lastCall'.code = 200
               /\ db'[cid].status = "processing"
               /\ db'[cid].pipeline_runs =
                    Append(db[cid].pipeline_runs,
                           [run_id |-> lastCall'.run_id, state |-> "processing"])
               /\ Len(tasks') = Len(tasks) + 1
               /\ lastCall'.run_id = Len(tasks')
               /\ tasks'[Len(tasks')].cid = cid
               /\ tasks'[Len(tasks')].pc = "change_state_processing"
          ELSE /\ lastCall'.code \in {400, 404}
               /\ lastCall'.run_id = 0
               /\ db' = db
               /\ tasks' = tasks]_vars

\* a trigger was rejected for a contract in state analyzing that has one run: no
\* second run exists
C23_Witness ==
  /\ lastCall.op = "init-genai"
  /\ lastCall.code = 400
  /\ db[lastCall.cid].status = "analyzing"
  /\ Len(db[lastCall.cid].pipeline_runs) = 1
  /\ Len(tasks) = 1

\* ---- C24 ----------------------------------------------------------------------
\* the contract of this evaluate-document request has an analysis with clauses
C24_Analyzed == Found(db, lastCall'.cid) /\ HasClauses(db[lastCall'.cid].analysis_result)

C25_SupersededNeverLatestAgain ==
  \A r \in Runs :
    Superseded(r) => ~LastRunIs(db[tasks[r].cid].pipeline_runs, r)

\* ---- API requests that overlap ------------------------------------------------
\* A handler is a coroutine: `await Contract.get(...)` loads the whole document,
\* the handler changes its copy, and `await contract.save()` writes the whole copy
\* back. Other requests are served between the two awaits.
MaxOverlap == 2

\* a request that has loaded its contract: the copy it holds and its parameters
Handler(op, cid, state, run_id, clauses) ==
  [op |-> op, cid |-> cid, doc |-> db[cid], state |-> state, run_id |-> run_id,
   clauses |-> clauses]

\* the Document Store as handler h sees it: its own copy of its contract
Loaded(h) == [db EXCEPT ![h.cid] = h.doc]

\* Contract.get of a request (a request for a missing contract is answered 404
\* at once and never overlaps)
Load(h) ==
  /\ Len(inflight) < MaxOverlap
  /\ inflight' = Append(inflight, h)
  /\ UNCHANGED <<db, uploads, parsed, tasks, lastCall, session>>

\* contract.save() of handler h, whose body computed res on its copy: the whole
\* copy replaces the stored document
Saved(h, res) ==
  [res EXCEPT !.db = IF res.code = 200 THEN [db EXCEPT ![h.cid] = res.db[h.cid]] ELSE db]

Without(i) == SubSeq(inflight, 1, i - 1) \o SubSeq(inflight, i + 1, Len(inflight))

\* trigger_genai_analysis up to Contract.get
trigger_load(max) ==
  \E cid \in DOMAIN db :
    /\ Len(tasks) + Len(inflight) < max
    /\ Load(Handler("init-genai", cid, "", None, 0))

\* trigger_genai_analysis from Contract.get to the response
trigger_save ==
  \E i \in DOMAIN inflight :
    LET h == inflight[i]
        run_id == Len(tasks) + 1
        res == Saved(h, trigger_genai_analysis(Loaded(h), h.cid, run_id))
    IN /\ h.op = "init-genai"
       /\ Served("init-genai", h.cid, "", res.run_id, res)
       /\ tasks' = IF res.code = 200 THEN Append(tasks, NewTask(h.cid)) ELSE tasks
       /\ inflight' = Without(i)
       /\ UNCHANGED <<session, uploads, parsed>>

\* change_contract_state and set_analysis_result up to _get_contract, with what
\* the steps of the runs send
callback_load ==
  \E cid \in DOMAIN db :
    \/ \E state \in {"processing", "completed"}, r \in Runs :
         /\ Len(db[cid].pipeline_runs) < MaxEntries
         /\ Load(Handler("change-state", cid, state, Some(r), 0))
    \/ \E n \in ClauseCounts : Load(Handler("set-analysis-result", cid, "", None, n))

\* change_contract_state and set_analysis_result from _get_contract to the response
callback_save ==
  \E i \in DOMAIN inflight :
    LET h == inflight[i]
        res == Saved(h, IF h.op = "change-state"
                        THEN change_contract_state(Loaded(h), h.cid, h.state, h.run_id)
                        ELSE set_analysis_result(Loaded(h), h.cid, Analysis(h.clauses, 0)))
    IN /\ h.op \in {"change-state", "set-analysis-result"}
       /\ Served(h.op, h.cid, h.state, RunIdOf(h.run_id), res)
       /\ inflight' = Without(i)
       /\ UNCHANGED <<session, uploads, parsed, tasks>>

\* Trigger requests that overlap, and the chains they dispatch.
NextTriggers ==
  \/ Upload
  \/ trigger_load(MaxChains)
  \/ trigger_save
  \/ Worker

SpecTriggers == Init /\ [][NextTriggers]_vars

\* Requests on one contract that overlap: triggers and the callbacks of steps.
NextOverlap ==
  \/ Upload
  \/ trigger_load(MaxChains)
  \/ trigger_save
  \/ callback_load
  \/ callback_save

SpecOverlap == Init /\ [][NextOverlap]_vars

\* ---- C26 ----------------------------------------------------------------------
\* run r has steps that were not executed
Unexecuted(r) == tasks[r].pc \notin {"done", "failed"}

\* C26: a trigger is accepted only when no earlier run of the contract has steps
\* that were not executed, also when trigger requests overlap.
C26_OneRunInFlight ==
  [][(Serves("init-genai") /\ lastCall'.code = 200) =>
       \A r \in Runs : tasks[r].cid = lastCall'.cid => ~Unexecuted(r)]_vars

\* ---- C29 ----------------------------------------------------------------------
\* what handler h does to the stored record when nothing overlaps it
Alone(h) ==
  IF h.op = "init-genai" THEN trigger_genai_analysis(db, h.cid, Len(tasks) + 1)
  ELSE IF h.op = "change-state" THEN change_contract_state(db, h.cid, h.state, h.run_id)
  ELSE set_analysis_result(db, h.cid, Analysis(h.clauses, 0))

\* C29: no update is lost: a handler that saves changes only what it is meant to
\* change in the record as stored at that moment, so what a request that
\* overlapped it has saved in the meantime is still there; and a request that the
\* stored record would make the handler reject changes nothing.
C29_NoLostUpdate ==
  [][\A i \in DOMAIN inflight :
       inflight' = Without(i) =>
         db' = IF Alone(inflight[i]).code = 200 THEN Alone(inflight[i]).db ELSE db]_vars

\* ---- C27 ----------------------------------------------------------------------
\* the change-state(completed) step of run r sets its contract to completed
Completes(r) ==
  /\ tasks[r].pc = "change_state_completed"
  /\ tasks'[r].pc = "done"
  /\ db'[tasks[r].cid].status = "completed"

C28_LatestRunNotDropped ==
  [][\A r \in Runs :
       (/\ StepOf(r)
        /\ lastCall' # lastCall
        /\ lastCall'.by = r
        /\ lastCall'.op = "is-latest"
        /\ LastRunIs(db[tasks[r].cid].pipeline_runs, r)) =>
         \/ tasks'[r].pc = "parse_run"
         \/ db'[tasks[r].cid].status = "failed"]_vars

\* ---- uploads of several contracts ------------------------------------------------
MaxContracts == 2

UploadDays == {"2024/01/01", "2024/01/02"}
UploadNames == {"a.pdf", "b.pdf"}

\* Uploads of several contracts, on two days and under two file names, and the
\* chain of the first contract.
NextBlobs ==
  \/ UploadOf(1..MaxContracts, UploadDays, UploadNames)
  \/ TriggerUpTo(1)
  \/ Worker

SpecBlobs == Init /\ [][NextBlobs]_vars

\* ---- C30 ----------------------------------------------------------------------
\* C30: distinct contracts have distinct stored-blob paths, and the blob at a
\* contract's path holds the bytes uploaded for that contract (unless it was
\* removed), so parse-document reads the bytes of its own contract.
C30_BlobNeverOverwritten ==
  /\ \A c1, c2 \in DOMAIN db : c1 # c2 => db[c1].file_path # db[c2].file_path
  /\ \A cid \in DOMAIN db :
       db[cid].file_path \in DOMAIN uploads => uploads[db[cid].file_path] = cid

====
